---- MODULE Spec2Model ----
(***************************************************************************)
(* The logistics agent of src/agent/agent.py (tools backed by a database, *)
(* the "persisted" variant) and of src/agent-mocked-tools/agent.py (tools  *)
(* backed by the MOCK_SHIPMENTS dictionary, the "mock" variant).           *)
(*                                                                         *)
(* One process serves invocations one at a time.  logistics_query checks   *)
(* the payload, builds the model and the agent lazily and hands the query  *)
(* to the agent; while the agent runs (pc = "running") it may call the two *)
(* tools any number of times, each call being one step; then the agent     *)
(* returns or raises and logistics_query returns a string.                 *)
(*                                                                         *)
(* Remote collaborators (parameter store, secret store, database server,   *)
(* model provider) answer each call with an outcome chosen by the          *)
(* environment; the contents of the database are owned by others and are   *)
(* chosen afresh at every query.                                           *)
(***************************************************************************)
EXTENDS Integers, Sequences, FiniteSets, TLC

VARIABLES
    variant,          \* "mock" | "persisted": which agent.py this process runs
    _db_config,       \* agent.py:21
    _db_credentials,  \* agent.py:22
    _db_connection,   \* agent.py:23
    _openai_model,    \* agent.py:175
    _agent,           \* agent.py:173
    pc,               \* "idle" | "running": is agent(user_query) in progress
    opened,           \* how many pg8000 connections were constructed so far
    calls,            \* the remote/constructor calls made by the latest step
    response,         \* what the latest logistics_query invocation gave back
    toolOut,          \* what the latest tool call gave back
    th,               \* interleaved tool calls: each thread's position and locals
    overlapped        \* have two interleaved tool calls ever been in progress at once

vars == << variant, _db_config, _db_credentials, _db_connection, _openai_model,
           _agent, pc, opened, calls, response, toolOut, th, overlapped >>

\* the state of the interleaved tool calls, which sequential invocations leave alone
conc == << th, overlapped >>

caches == << _db_config, _db_credentials, _db_connection, _openai_model, _agent >>

(***************************************************************************)
(* Bounds of the model.                                                    *)
(***************************************************************************)
\* ETA values of the risk view are 1..MaxEta (plus SQL NULL)
MaxEta == 2
\* at most this many connections are ever constructed
MaxOpened == 2

(***************************************************************************)
(* Values.  Python and JSON values that the code tells apart by type are   *)
(* tagged: None/null, strings and timestamps.                              *)
(***************************************************************************)
\* Python's None, JSON's null, SQL's NULL as pg8000 delivers it
None == [t |-> "null"]

Str(s) == [t |-> "str", v |-> s]

\* a timestamp column as pg8000 delivers it (a datetime), by its instant
Ts(n) == [t |-> "ts", v |-> n]

AWS_REGION == "us-east-1"
OPENAI_SECRET_NAME == "openai-api-key"

\* The reference numbers a caller may ask about: the three of the fixture
\* (also used as keys of database rows) and one that the mock does not hold.
KnownRefs == {"SHIP-REF-1001", "SHIP-REF-1002", "SHIP-REF-1003"}
Refs == KnownRefs \cup {"ACME-REF-1001"}

\* what a remote call can do
Outcomes == {"ok", "fail"}
Envs == [ssm : Outcomes, secret : Outcomes, connect : Outcomes, query : Outcomes]

\* names of the calls recorded in `calls`
SsmGetParameters == "ssm.get_parameters"
DbGetSecretValue == "secretsmanager.get_secret_value(db)"
PgConnection     == "pg8000.native.Connection"
ConnRun          == "conn.run"
OpenAiGetSecret  == "secretsmanager.get_secret_value(openai)"
OpenAIModelCtor  == "OpenAIModel"
AgentCtor        == "Agent"
AgentRun         == "agent(user_query)"

\* the messages of the faults the collaborators raise (str(e))
NoFault      == ""
SsmFault     == "ssm: parameters unavailable"
SecretFault  == "secretsmanager: secret unavailable"
NoCredsFault == "'NoneType' object is not subscriptable"
ConnectFault == "pg8000: connection refused"
QueryFault   == "pg8000: query failed"

(***************************************************************************)
(* json.dumps(..., default=str): strings and null are encoded as they are, *)
(* a datetime is not encodable and goes through str.                       *)
(***************************************************************************)
\* str(datetime): the rendering of instant n
TsText(n) == "2025-01-0" \o ToString(n) \o " 00:00:00"

\* json.dumps of one column value, agent.py:117 and :150
json_default(v) == IF v.t = "ts" THEN Str(TsText(v.v)) ELSE v

\* json.dumps(row, default=str, indent=2) of a database row (a list of columns)
json_dumps_row(row) == [i \in 1..Len(row) |-> json_default(row[i])]

\* json.dumps(rows, default=str, indent=2) of a list of rows
json_dumps_rows(rows) == [i \in 1..Len(rows) |-> json_dumps_row(rows[i])]

(***************************************************************************)
(* The database, as the two queries of agent.py see it.  Its contents are  *)
(* not in this repository: a table is any set of rows with unique          *)
(* reference numbers.                                                      *)
(***************************************************************************)
UniqueRefs(rows) == \A a, b \in rows : a[1] = b[1] => a = b

\* a row of the join of agent.py:99-112: reference_no, status, event,
\* current_location, unlocode, occurred_at, details
ShipmentRow(ref, status) ==
    << Str(ref), Str(status),
       Str(IF status = "AT_RISK" THEN "DELAYED" ELSE "DEPARTED"),
       Str("Port of Singapore"), Str("SGSIN"), Ts(1), Str("details of " \o ref) >>

ShipmentTables ==
    { tb \in SUBSET { ShipmentRow(r, st) : r \in KnownRefs, st \in {"IN_TRANSIT", "AT_RISK"} } :
        UniqueRefs(tb) }

\* a row of logistics.mv_eta_risk, agent.py:136-145: reference_no, eta,
\* eta_final, eta_status
RiskRow(ref, eta, eta_status) == << Str(ref), eta, eta, Str(eta_status) >>

Etas == {None} \cup { Ts(n) : n \in 1..MaxEta }

RiskViews ==
    { vw \in SUBSET ({ RiskRow(r, e, "AT_RISK") : r \in KnownRefs, e \in Etas }
                      \cup { RiskRow(r, Ts(1), "ON_TRACK") : r \in KnownRefs }) :
        UniqueRefs(vw) }

\* every way to list the finite set S
Listings(S) ==
    { f \in [1..Cardinality(S) -> S] : \A i, j \in DOMAIN f : i # j => f[i] # f[j] }

\* the query of agent.py:99-112 without its WHERE clause
StatusWhereMissing(row, reference_no) == TRUE

\* WHERE s.reference_no = :reference_no, agent.py:111
StatusWhere(row, reference_no) == row[1] = Str(reference_no)

\* the results conn.run may give for the query of agent.py:99-112
StatusQuery(table, reference_no) ==
    Listings({ row \in table : StatusWhere(row, reference_no) })

\* the query of agent.py:136-145 without its WHERE clause
RiskWhereMissing(row) == TRUE

\* WHERE r.eta_status = 'AT_RISK', agent.py:143
RiskWhere(row) == row[4] = Str("AT_RISK")

\* ORDER BY r.eta DESC without NULLS LAST: the server then puts NULLs first
EtaOrderNullsFirst(a, b) ==
    \/ a[2] = None
    \/ b[2] # None /\ a[2].v >= b[2].v

\* ORDER BY r.eta DESC NULLS LAST, agent.py:144: may row a stand before row b
EtaOrder(a, b) ==
    \/ b[2] = None
    \/ a[2] # None /\ a[2].v >= b[2].v

\* the results conn.run may give for the query of agent.py:136-145
RiskQuery(view) ==
    { s \in Listings({ row \in view : RiskWhere(row) }) :
        \A i, j \in DOMAIN s : i < j => EtaOrder(s[i], s[j]) }

(***************************************************************************)
(* Configuration, credentials and connection of the persisted variant.     *)
(* The functions take the module globals as a record g = [cfg, creds,      *)
(* conn, opened] and the outcomes env of the remote calls, and give the    *)
(* globals afterwards, the fault raised (NoFault when the function         *)
(* returns) and the calls made.                                            *)
(***************************************************************************)
\* agent.py:44-48
DbConfig == [endpoint |-> "rds-endpoint", database |-> "logistics", secret_arn |-> "db-secret-arn"]

\* agent.py:53
DbCredentials == [username |-> "agent", password |-> "secret"]

\* the handle of the n-th connection constructed
Handle(n) == [handle |-> n]

\* agent.py:25-59 without the test of the cache at agent.py:29-30
_load_db_config_uncached(g, env) ==
    IF env.ssm # "ok"
    THEN [g |-> g, fault |-> SsmFault, calls |-> {SsmGetParameters}]
    ELSE LET g1 == [g EXCEPT !.cfg = DbConfig]
         IN  IF env.secret # "ok"
             THEN [g |-> g1, fault |-> SecretFault,
                   calls |-> {SsmGetParameters, DbGetSecretValue}]
             ELSE [g |-> [g1 EXCEPT !.creds = DbCredentials], fault |-> NoFault,
                   calls |-> {SsmGetParameters, DbGetSecretValue}]

\* agent.py:25-59 caching the configuration only: the secret is read at
\* every call
_load_db_config_secret_uncached(g, env) ==
    LET p == IF g.cfg # None
             THEN [g |-> g, fault |-> NoFault, calls |-> {}]
             ELSE IF env.ssm # "ok"
             THEN [g |-> g, fault |-> SsmFault, calls |-> {SsmGetParameters}]
             ELSE [g |-> [g EXCEPT !.cfg = DbConfig], fault |-> NoFault,
                   calls |-> {SsmGetParameters}]
    IN  IF p.fault # NoFault
        THEN p
        ELSE IF env.secret # "ok"
        THEN [p EXCEPT !.fault = SecretFault, !.calls = @ \cup {DbGetSecretValue}]
        ELSE [g |-> [p.g EXCEPT !.creds = DbCredentials], fault |-> NoFault,
              calls |-> p.calls \cup {DbGetSecretValue}]

\* agent.py:25-59
_load_db_config(g, env) ==
    IF g.cfg # None
    THEN [g |-> g, fault |-> NoFault, calls |-> {}]
    ELSE IF env.ssm # "ok"
    THEN [g |-> g, fault |-> SsmFault, calls |-> {SsmGetParameters}]
    ELSE LET g1 == [g EXCEPT !.cfg = DbConfig]
         IN  IF env.secret # "ok"
             THEN [g |-> g1, fault |-> SecretFault,
                   calls |-> {SsmGetParameters, DbGetSecretValue}]
             ELSE [g |-> [g1 EXCEPT !.creds = DbCredentials], fault |-> NoFault,
                   calls |-> {SsmGetParameters, DbGetSecretValue}]

\* agent.py:61-83 without the test of the cached handle at agent.py:66-67
get_db_connection_uncached(g, env) ==
    LET l == _load_db_config(g, env)
    IN  IF l.fault # NoFault
        THEN l
        ELSE IF l.g.creds = None
        THEN [l EXCEPT !.fault = NoCredsFault]
        ELSE IF env.connect # "ok"
        THEN [l EXCEPT !.fault = ConnectFault, !.calls = @ \cup {PgConnection}]
        ELSE [g |-> [l.g EXCEPT !.conn = Handle(g.opened + 1), !.opened = @ + 1],
              fault |-> NoFault,
              calls |-> l.calls \cup {PgConnection}]

\* agent.py:61-83
get_db_connection(g, env) ==
    IF g.conn # None
    THEN [g |-> g, fault |-> NoFault, calls |-> {}]
    ELSE LET l == _load_db_config(g, env)
         IN  IF l.fault # NoFault
             THEN l
             ELSE IF l.g.creds = None
             THEN [l EXCEPT !.fault = NoCredsFault]
             ELSE IF env.connect # "ok"
             THEN [l EXCEPT !.fault = ConnectFault, !.calls = @ \cup {PgConnection}]
             ELSE [g |-> [l.g EXCEPT !.conn = Handle(g.opened + 1), !.opened = @ + 1],
                   fault |-> NoFault,
                   calls |-> l.calls \cup {PgConnection}]

(***************************************************************************)
(* The tools of the persisted variant.  A tool gives back a reply: a JSON  *)
(* document (kind "json"), a plain sentence (kind "text"), or, were a      *)
(* fault to leave the tool, no value at all (kind "raised").               *)
(***************************************************************************)
JsonReply(doc) == [kind |-> "json", text |-> "", doc |-> doc]

TextReply(text) == [kind |-> "text", text |-> text, doc |-> << >>]

RaisedReply(fault) == [kind |-> "raised", text |-> fault, doc |-> << >>]

\* agent.py:116-119 taking result[0] without testing result: on no rows the
\* IndexError is caught by agent.py:121-123
StatusReplyUntested(result, reference_no) ==
    IF Len(result) > 0
    THEN JsonReply(json_dumps_row(result[1]))
    ELSE TextReply("Error retrieving shipment status: list index out of range")

\* agent.py:116-119
StatusReply(result, reference_no) ==
    IF Len(result) > 0
    THEN JsonReply(json_dumps_row(result[1]))
    ELSE TextReply("Shipment " \o reference_no \o " not found")

\* agent.py:121-123 raising again after logging, as agent.py:81-83 does
StatusFaultRaisedAgain(fault) == RaisedReply(fault)

\* agent.py:121-123
StatusFault(fault) == TextReply("Error retrieving shipment status: " \o fault)

\* agent.py:149-152 without the test of results
DelayedReplyUntested(results) == JsonReply(json_dumps_rows(results))

\* agent.py:149-152
DelayedReply(results) ==
    IF Len(results) > 0
    THEN JsonReply(json_dumps_rows(results))
    ELSE TextReply("No delayed shipments found")

\* agent.py:154-156
DelayedFault(fault) == TextReply("Error finding delayed shipments: " \o fault)

\* the module globals of agent.py:21-23 as one record
Globals == [cfg |-> _db_config, creds |-> _db_credentials, conn |-> _db_connection,
            opened |-> opened]

SetGlobals(g) ==
    /\ _db_config' = g.cfg
    /\ _db_credentials' = g.creds
    /\ _db_connection' = g.conn
    /\ opened' = g.opened

\* what a tool call leaves in toolOut: the call, whether its query ran, the
\* table it ran on, the rows it got, the fault met and the reply
Out(op, arg, ran, db, rows, fault, reply) ==
    [op |-> op, arg |-> arg, ran |-> ran, db |-> db, rows |-> rows,
     fault |-> fault, reply |-> reply]

\* the environment decides the outcome of the calls that are made, and of
\* no others: the outcome of a call that is not made is left at "ok"
OutcomesOfCallsMade(env, made) ==
    /\ env.ssm = "fail" => SsmGetParameters \in made
    /\ env.secret = "fail" => DbGetSecretValue \in made
    /\ env.connect = "fail" => PgConnection \in made
    /\ env.query = "fail" => ConnRun \in made

\* agent.py:85-123
get_shipment_status(reference_no) ==
    /\ variant = "persisted"
    /\ pc = "running"
    /\ \E env \in Envs :
         LET c == get_db_connection(Globals, env)
             made == IF c.fault = NoFault THEN c.calls \cup {ConnRun} ELSE c.calls
         IN  /\ OutcomesOfCallsMade(env, made)
             /\ c.g.opened <= MaxOpened
             /\ SetGlobals(c.g)
             /\ calls' = made
             /\ IF c.fault # NoFault
                THEN toolOut' = Out("get_shipment_status", reference_no, FALSE, {}, << >>,
                                    c.fault, StatusFault(c.fault))
                ELSE IF env.query # "ok"
                THEN toolOut' = Out("get_shipment_status", reference_no, FALSE, {}, << >>,
                                    QueryFault, StatusFault(QueryFault))
                ELSE \E table \in ShipmentTables :
                       \E result \in StatusQuery(table, reference_no) :
                          toolOut' = Out("get_shipment_status", reference_no, TRUE, table,
                                         result, NoFault, StatusReply(result, reference_no))
    /\ UNCHANGED << variant, _openai_model, _agent, pc, response >>
    /\ UNCHANGED conc

\* agent.py:125-156
find_delayed_shipments ==
    /\ variant = "persisted"
    /\ pc = "running"
    /\ \E env \in Envs :
         LET c == get_db_connection(Globals, env)
             made == IF c.fault = NoFault THEN c.calls \cup {ConnRun} ELSE c.calls
         IN  /\ OutcomesOfCallsMade(env, made)
             /\ c.g.opened <= MaxOpened
             /\ SetGlobals(c.g)
             /\ calls' = made
             /\ IF c.fault # NoFault
                THEN toolOut' = Out("find_delayed_shipments", "", FALSE, {}, << >>,
                                    c.fault, DelayedFault(c.fault))
                ELSE IF env.query # "ok"
                THEN toolOut' = Out("find_delayed_shipments", "", FALSE, {}, << >>,
                                    QueryFault, DelayedFault(QueryFault))
                ELSE \E view \in RiskViews :
                       \E results \in RiskQuery(view) :
                          toolOut' = Out("find_delayed_shipments", "", TRUE, view,
                                         results, NoFault, DelayedReply(results))
    /\ UNCHANGED << variant, _openai_model, _agent, pc, response >>
    /\ UNCHANGED conc

(***************************************************************************)
(* The tools of the mock variant.                                          *)
(***************************************************************************)
\* the keys of MOCK_SHIPMENTS in the order the dictionary literal gives them
MockKeys == << "SHIP-REF-1001", "SHIP-REF-1002", "SHIP-REF-1003" >>

\* agent-mocked-tools/agent.py:17-45
MOCK_SHIPMENTS ==
    [k \in {"SHIP-REF-1001", "SHIP-REF-1002", "SHIP-REF-1003"} |->
       CASE k = "SHIP-REF-1001" ->
              [reference_no |-> "SHIP-REF-1001", status |-> "IN_TRANSIT",
               event |-> "DEPARTED", current_location |-> "Port of Los Angeles",
               unlocode |-> "USLAX", occurred_at |-> "now - 2 days",
               details |-> "Container loaded on vessel MSC MAYA"]
         [] k = "SHIP-REF-1002" ->
              [reference_no |-> "SHIP-REF-1002", status |-> "DELIVERED",
               event |-> "DELIVERED", current_location |-> "Shanghai Distribution Center",
               unlocode |-> "CNSHA", occurred_at |-> "now - 6 hours",
               details |-> "Delivered to consignee"]
         [] k = "SHIP-REF-1003" ->
              [reference_no |-> "SHIP-REF-1003", status |-> "AT_RISK",
               event |-> "DELAYED", current_location |-> "Port of Singapore",
               unlocode |-> "SGSIN", occurred_at |-> "now - 12 hours",
               details |-> "Vessel delayed due to weather conditions"]]

\* json.dumps(d, indent=2) of a dictionary of strings
json_dumps_dict(d) == [k \in DOMAIN d |-> Str(d[k])]

\* json.dumps(ds, indent=2) of a list of dictionaries of strings
json_dumps_dicts(ds) == [i \in 1..Len(ds) |-> json_dumps_dict(ds[i])]

\* agent-mocked-tools/agent.py:59-62
MockStatusReply(reference_no) ==
    IF reference_no \in DOMAIN MOCK_SHIPMENTS
    THEN JsonReply(json_dumps_dict(MOCK_SHIPMENTS[reference_no]))
    ELSE TextReply("Shipment " \o reference_no \o " not found")

\* agent-mocked-tools/agent.py:81
MockAtRisk(shipment) == shipment.status = "AT_RISK"

\* agent-mocked-tools/agent.py:82-89
MockDelayedEntry(ref_no) ==
    LET shipment == MOCK_SHIPMENTS[ref_no]
    IN  [reference_no |-> ref_no, status |-> shipment.status,
         current_location |-> shipment.current_location, event |-> shipment.event,
         occurred_at |-> shipment.occurred_at, details |-> shipment.details]

\* agent-mocked-tools/agent.py:79-89: the list `delayed` after the loop
MockDelayed ==
    LET keys == SelectSeq(MockKeys, LAMBDA k : MockAtRisk(MOCK_SHIPMENTS[k]))
    IN  [i \in 1..Len(keys) |-> MockDelayedEntry(keys[i])]

\* agent-mocked-tools/agent.py:91-94
MockDelayedReply(delayed) ==
    IF Len(delayed) = 0
    THEN TextReply("No delayed shipments found")
    ELSE JsonReply(json_dumps_dicts(delayed))

\* agent-mocked-tools/agent.py:47-66
mock_get_shipment_status(reference_no) ==
    /\ variant = "mock"
    /\ pc = "running"
    /\ calls' = {}
    /\ toolOut' = Out("get_shipment_status", reference_no, TRUE, {}, << >>, NoFault,
                      MockStatusReply(reference_no))
    /\ UNCHANGED << variant, _db_config, _db_credentials, _db_connection, opened,
                    _openai_model, _agent, pc, response >>
    /\ UNCHANGED conc

\* agent-mocked-tools/agent.py:69-98
mock_find_delayed_shipments ==
    /\ variant = "mock"
    /\ pc = "running"
    /\ calls' = {}
    /\ toolOut' = Out("find_delayed_shipments", "", TRUE, {}, MockDelayed, NoFault,
                      MockDelayedReply(MockDelayed))
    /\ UNCHANGED << variant, _db_config, _db_credentials, _db_connection, opened,
                    _openai_model, _agent, pc, response >>
    /\ UNCHANGED conc

(***************************************************************************)
(* Model, agent and entrypoint (the same code in both variants, but for    *)
(* the model identifier).                                                  *)
(***************************************************************************)
\* a request payload: a JSON object with its fields, or a JSON array
Obj(fields) == [type |-> "object", fields |-> fields]

Arr == [type |-> "array", fields |-> << >>]

Question == "What is the status of SHIP-REF-1003?"

Payloads ==
    { Obj([query |-> Str(Question)]), Obj([query |-> Str("")]), Obj([query |-> None]),
      Obj([prompt |-> Str(Question)]), Arr }

\* the payloads whose query is the empty string, None or missing
EmptyQueryPayloads ==
    { Obj([query |-> Str("")]), Obj([query |-> None]), Obj([prompt |-> Str(Question)]) }

\* dict.get(key): the value, or None when the key is missing
dict_get(d, key) == IF key \in DOMAIN d THEN d[key] ELSE None

\* the test `user_query is None` in place of `not user_query`
TruthyUnlessNone(v) == v # None

\* Python's truth value of None and of a string
Truthy(v) == v.t = "str" /\ v.v # ""

UsageHint == "Please provide a query in the format: {\"query\": \"your question here\"}"

AttributeFault == "'list' object has no attribute 'get'"
OpenAiFault    == "secretsmanager: openai secret unavailable"
AgentCtorFault == "Agent: construction failed"
AgentRunFault  == "agent: model call failed"

AgentEnvs == [secret : Outcomes, agent : Outcomes]

\* agent.py:191-198 and agent-mocked-tools/agent.py:118-125
ModelId == IF variant = "mock" THEN "gpt-4o-mini" ELSE "gpt-4o"

OpenAIModel == [model_id |-> ModelId, max_tokens |-> 2000]

Agent(model) == [name |-> "logistics_agent", model |-> model]

\* agent.py:176-204; m is [model, agent], the globals of agent.py:173-175
_get_openai_model(m, env) ==
    IF m.model # None
    THEN [m |-> m, fault |-> NoFault, calls |-> {}]
    ELSE IF env.secret # "ok"
    THEN [m |-> m, fault |-> OpenAiFault, calls |-> {OpenAiGetSecret}]
    ELSE [m |-> [m EXCEPT !.model = OpenAIModel], fault |-> NoFault,
          calls |-> {OpenAiGetSecret, OpenAIModelCtor}]

\* agent.py:206-224 without the test `_agent is None` of agent.py:209
_initialize_agent_uncached(m, env) ==
    LET o == _get_openai_model(m, env)
    IN  IF o.fault # NoFault
        THEN o
        ELSE IF env.agent # "ok"
        THEN [o EXCEPT !.fault = AgentCtorFault, !.calls = @ \cup {AgentCtor}]
        ELSE [m |-> [o.m EXCEPT !.agent = Agent(o.m.model)], fault |-> NoFault,
              calls |-> o.calls \cup {AgentCtor}]

\* agent.py:206-224
_initialize_agent(m, env) ==
    IF m.agent # None
    THEN [m |-> m, fault |-> NoFault, calls |-> {}]
    ELSE LET o == _get_openai_model(m, env)
         IN  IF o.fault # NoFault
             THEN o
             ELSE IF env.agent # "ok"
             THEN [o EXCEPT !.fault = AgentCtorFault, !.calls = @ \cup {AgentCtor}]
             ELSE [m |-> [o.m EXCEPT !.agent = Agent(o.m.model)], fault |-> NoFault,
                   calls |-> o.calls \cup {AgentCtor}]

Returned(payload, text) == [payload |-> payload, kind |-> "returned", text |-> text]

Raised(payload, fault) == [payload |-> payload, kind |-> "raised", text |-> fault]

Pending(payload) == [payload |-> payload, kind |-> "pending", text |-> ""]

\* agent.py:244-246
QueryFailed(payload, fault) == Returned(payload, "Query failed: " \o fault)

\* agent.py:226-238: logistics_query up to the call of the agent
logistics_query(payload) ==
    /\ pc = "idle"
    /\ IF payload.type # "object"
       THEN /\ response' = Raised(payload, AttributeFault)
            /\ calls' = {}
            /\ UNCHANGED << _openai_model, _agent, pc >>
       ELSE IF ~Truthy(dict_get(payload.fields, "query"))
       THEN /\ response' = Returned(payload, UsageHint)
            /\ calls' = {}
            /\ UNCHANGED << _openai_model, _agent, pc >>
       ELSE \E env \in AgentEnvs :
              LET a == _initialize_agent([model |-> _openai_model, agent |-> _agent], env)
              IN  /\ _openai_model' = a.m.model
                  /\ _agent' = a.m.agent
                  /\ calls' = a.calls
                  /\ IF a.fault # NoFault
                     THEN /\ response' = QueryFailed(payload, a.fault)
                          /\ pc' = "idle"
                     ELSE /\ response' = Pending(payload)
                          /\ pc' = "running"
    /\ UNCHANGED << variant, _db_config, _db_credentials, _db_connection, opened, toolOut >>
    /\ UNCHANGED conc

\* agent.py:240-246: the agent returns its answer or raises, and
\* logistics_query returns
agent_done ==
    /\ pc = "running"
    /\ pc' = "idle"
    /\ calls' = {AgentRun}
    /\ \E outcome \in Outcomes :
         response' = IF outcome = "ok"
                     THEN Returned(response.payload,
                                   "answer to: " \o dict_get(response.payload.fields, "query").v)
                     ELSE QueryFailed(response.payload, AgentRunFault)
    /\ UNCHANGED << variant, _db_config, _db_credentials, _db_connection, opened,
                    _openai_model, _agent, toolOut >>
    /\ UNCHANGED conc

(***************************************************************************)
(* The process.                                                            *)
(***************************************************************************)
\* the threads whose tool calls may interleave
Threads == {"t1", "t2"}

\* a thread that is in no tool call: pc "idle"; arg is the reference asked,
\* cfg, creds and conn are the locals config, credentials and conn of
\* agent.py:71 and :97, out is what its latest call gave back
IdleThread == [pc |-> "idle", arg |-> "", cfg |-> None, creds |-> None, conn |-> None,
               out |-> TextReply("")]

NoOut == Out("none", "", FALSE, {}, << >>, NoFault, TextReply(""))

Init ==
    /\ variant \in {"mock", "persisted"}
    /\ _db_config = None
    /\ _db_credentials = None
    /\ _db_connection = None
    /\ _openai_model = None
    /\ _agent = None
    /\ pc = "idle"
    /\ opened = 0
    /\ calls = {}
    /\ response = [payload |-> Obj(<< >>), kind |-> "none", text |-> ""]
    /\ toolOut = NoOut
    /\ th = [t \in Threads |-> IdleThread]
    /\ overlapped = FALSE

Next ==
    \/ \E payload \in Payloads : logistics_query(payload)
    \/ agent_done
    \/ \E reference_no \in Refs : get_shipment_status(reference_no)
    \/ find_delayed_shipments
    \/ \E reference_no \in Refs : mock_get_shipment_status(reference_no)
    \/ mock_find_delayed_shipments

Spec == Init /\ [][Next]_vars

(***************************************************************************)
(* Interleaved tool calls.  Two threads of one process each run            *)
(* get_shipment_status of the persisted variant, one step per access to a  *)
(* module global or remote call, in any interleaving.  A thread's pc:      *)
(*   "start"    at agent.py:66, about to test _db_connection               *)
(*   "ret_conn" at agent.py:67, about to return the cached handle          *)
(*   "load"     at agent.py:29, about to test _db_config                   *)
(*   "ret_cfg"  at agent.py:30, about to return the cached pair            *)
(*   "ssm"      at agent.py:34, about to read the parameters               *)
(*   "secret"   at agent.py:51, about to read the secret                   *)
(*   "connect"  at agent.py:73, about to construct the connection          *)
(*   "assign"   at agent.py:73, about to store the connection constructed  *)
(*   "ret_new"  at agent.py:80, about to return _db_connection             *)
(*   "run"      at agent.py:114, about to run the query                    *)
(***************************************************************************)
\* the thread t at position p, its other fields kept
At(t, p) == [th EXCEPT ![t].pc = p]

\* the thread t back in no call, having given back reply
Done(t, reply) == [th EXCEPT ![t].pc = "idle", ![t].out = reply]

ConcFrame == UNCHANGED << variant, _openai_model, _agent, pc, calls, response, toolOut >>

\* what is left in _db_connection when the connection could not be opened
\* and the cached handle was cleared in the except clause
HandleClearedAfterFailedConnect(handle) == None

\* agent.py:81-83: what is left in _db_connection when the connection could
\* not be opened; the except clause logs and raises, and assigns nothing
HandleAfterFailedConnect(handle) == handle

\* agent.py:86,96: the tool is called
c_call(t) ==
    /\ th[t].pc = "idle"
    /\ \E reference_no \in Refs :
         th' = [th EXCEPT ![t] = [IdleThread EXCEPT !.pc = "start", !.arg = reference_no]]
    /\ overlapped' = (overlapped \/ \E u \in Threads \ {t} : th[u].pc # "idle")
    /\ UNCHANGED << _db_config, _db_credentials, _db_connection, opened >>
    /\ ConcFrame

\* agent.py:66
c_test_connection(t) ==
    /\ th[t].pc = "start"
    /\ th' = At(t, IF _db_connection # None THEN "ret_conn" ELSE "load")
    /\ UNCHANGED << _db_config, _db_credentials, _db_connection, opened, overlapped >>
    /\ ConcFrame

\* agent.py:67 and :97
c_return_cached_connection(t) ==
    /\ th[t].pc = "ret_conn"
    /\ th' = [th EXCEPT ![t].pc = "run", ![t].conn = _db_connection]
    /\ UNCHANGED << _db_config, _db_credentials, _db_connection, opened, overlapped >>
    /\ ConcFrame

\* agent.py:29
c_test_config(t) ==
    /\ th[t].pc = "load"
    /\ th' = At(t, IF _db_config # None THEN "ret_cfg" ELSE "ssm")
    /\ UNCHANGED << _db_config, _db_credentials, _db_connection, opened, overlapped >>
    /\ ConcFrame

\* agent.py:30 and :71
c_return_cached_config(t) ==
    /\ th[t].pc = "ret_cfg"
    /\ th' = [th EXCEPT ![t].pc = "connect", ![t].cfg = _db_config,
                        ![t].creds = _db_credentials]
    /\ UNCHANGED << _db_config, _db_credentials, _db_connection, opened, overlapped >>
    /\ ConcFrame

\* agent.py:34-48, and :57-59, :81-83, :121-123 when the read fails
c_read_parameters(t) ==
    /\ th[t].pc = "ssm"
    /\ \E outcome \in Outcomes :
         IF outcome = "ok"
         THEN /\ _db_config' = DbConfig
              /\ th' = At(t, "secret")
         ELSE /\ th' = Done(t, StatusFault(SsmFault))
              /\ UNCHANGED _db_config
    /\ UNCHANGED << _db_credentials, _db_connection, opened, overlapped >>
    /\ ConcFrame

\* agent.py:51-55 and :71, and :57-59, :81-83, :121-123 when the read fails
c_read_secret(t) ==
    /\ th[t].pc = "secret"
    /\ \E outcome \in Outcomes :
         IF outcome = "ok"
         THEN /\ _db_credentials' = DbCredentials
              /\ th' = [th EXCEPT ![t].pc = "connect", ![t].cfg = _db_config,
                                  ![t].creds = DbCredentials]
         ELSE /\ th' = Done(t, StatusFault(SecretFault))
              /\ UNCHANGED _db_credentials
    /\ UNCHANGED << _db_config, _db_connection, opened, overlapped >>
    /\ ConcFrame

\* agent.py:73-79: the connection is constructed; and :81-83, :121-123 when
\* credentials is None or the server refuses
c_connect(t) ==
    /\ th[t].pc = "connect"
    /\ IF th[t].creds = None
       THEN /\ th' = Done(t, StatusFault(NoCredsFault))
            /\ _db_connection' = HandleAfterFailedConnect(_db_connection)
            /\ UNCHANGED opened
       ELSE \E outcome \in Outcomes :
              IF outcome = "ok"
              THEN /\ opened < MaxOpened
                   /\ opened' = opened + 1
                   /\ th' = [th EXCEPT ![t].pc = "assign", ![t].conn = Handle(opened + 1)]
                   /\ UNCHANGED _db_connection
              ELSE /\ th' = Done(t, StatusFault(ConnectFault))
                   /\ _db_connection' = HandleAfterFailedConnect(_db_connection)
                   /\ UNCHANGED opened
    /\ UNCHANGED << _db_config, _db_credentials, overlapped >>
    /\ ConcFrame

\* agent.py:73: the connection constructed is stored in the global
c_assign_connection(t) ==
    /\ th[t].pc = "assign"
    /\ _db_connection' = th[t].conn
    /\ th' = At(t, "ret_new")
    /\ UNCHANGED << _db_config, _db_credentials, opened, overlapped >>
    /\ ConcFrame

\* agent.py:80 and :97
c_return_new_connection(t) ==
    /\ th[t].pc = "ret_new"
    /\ th' = [th EXCEPT ![t].pc = "run", ![t].conn = _db_connection]
    /\ UNCHANGED << _db_config, _db_credentials, _db_connection, opened, overlapped >>
    /\ ConcFrame

\* agent.py:114-123
c_run_query(t) ==
    /\ th[t].pc = "run"
    /\ \E outcome \in Outcomes :
         IF outcome = "ok"
         THEN \E table \in ShipmentTables :
                \E result \in StatusQuery(table, th[t].arg) :
                   th' = Done(t, StatusReply(result, th[t].arg))
         ELSE th' = Done(t, StatusFault(QueryFault))
    /\ UNCHANGED << _db_config, _db_credentials, _db_connection, opened, overlapped >>
    /\ ConcFrame

\* the process while an agent is running its tools in two threads
InitConc ==
    /\ variant = "persisted"
    /\ _db_config = None
    /\ _db_credentials = None
    /\ _db_connection = None
    /\ _openai_model = OpenAIModel
    /\ _agent = Agent(OpenAIModel)
    /\ pc = "running"
    /\ opened = 0
    /\ calls = {}
    /\ response = Pending(Obj([query |-> Str(Question)]))
    /\ toolOut = NoOut
    /\ th = [t \in Threads |-> IdleThread]
    /\ overlapped = FALSE

NextConc ==
    \E t \in Threads :
       \/ c_call(t)
       \/ c_test_connection(t)
       \/ c_return_cached_connection(t)
       \/ c_test_config(t)
       \/ c_return_cached_config(t)
       \/ c_read_parameters(t)
       \/ c_read_secret(t)
       \/ c_connect(t)
       \/ c_assign_connection(t)
       \/ c_return_new_connection(t)
       \/ c_run_query(t)

SpecConc == InitConc /\ [][NextConc]_vars

(***************************************************************************)
(* Properties.                                                             *)
(***************************************************************************)
IsStatusCall == toolOut.op = "get_shipment_status"

IsDelayedCall == toolOut.op = "find_delayed_shipments"

\* the rows of the table the latest query ran on that carry the reference asked
MatchingRows == { row \in toolOut.db : row[1] = Str(toolOut.arg) }

\* C1: for a reference that is a key of the directory, get_shipment_status
\* gives the serialized record whose reference_no is the reference asked for
\* (mock: each fixture key, and SHIP-REF-1003 is AT_RISK at the Port of
\* Singapore with event DELAYED; persisted: whenever the query ran on a table
\* holding a row for the reference).
C1_KnownReferenceGivesItsRecord ==
    /\ (variant = "mock" /\ IsStatusCall /\ toolOut.arg \in DOMAIN MOCK_SHIPMENTS)
         => /\ toolOut.reply.kind = "json"
            /\ toolOut.reply.doc.reference_no = Str(toolOut.arg)
            /\ toolOut.arg = "SHIP-REF-1003"
                 => /\ toolOut.reply.doc.status = Str("AT_RISK")
                    /\ toolOut.reply.doc.current_location = Str("Port of Singapore")
                    /\ toolOut.reply.doc.event = Str("DELAYED")
    /\ (variant = "persisted" /\ IsStatusCall /\ toolOut.ran /\ MatchingRows # {})
         => /\ toolOut.reply.kind = "json"
            /\ toolOut.reply.doc[1] = Str(toolOut.arg)
            /\ \E row \in MatchingRows :
                 \A i \in {2, 3, 4, 5, 7} : toolOut.reply.doc[i] = row[i]

\* C1 witness: the persisted tool answered for SHIP-REF-1003 from a table that
\* also holds other shipments
C1_Witness ==
    /\ variant = "persisted" /\ IsStatusCall /\ toolOut.ran
    /\ toolOut.arg = "SHIP-REF-1003"
    /\ Cardinality(toolOut.db) = 3
    /\ toolOut.reply.kind = "json"
    /\ toolOut.reply.doc[2] = Str("AT_RISK")

\* C2: for a reference that matches no record, get_shipment_status gives
\* the sentence 'Shipment <id> not found' as its result: not a fault, not an
\* 'Error retrieving shipment status' sentence.
C2_UnknownReferenceGivesNotFound ==
    /\ (variant = "mock" /\ IsStatusCall /\ toolOut.arg \notin DOMAIN MOCK_SHIPMENTS)
         => toolOut.reply = TextReply("Shipment " \o toolOut.arg \o " not found")
    /\ (variant = "persisted" /\ IsStatusCall /\ toolOut.ran /\ MatchingRows = {})
         => toolOut.reply = TextReply("Shipment " \o toolOut.arg \o " not found")

\* C2 witness: the persisted tool found no row for SHIP-REF-1002 in a table
\* that holds other shipments
C2_Witness ==
    /\ variant = "persisted" /\ IsStatusCall /\ toolOut.ran
    /\ toolOut.arg = "SHIP-REF-1002"
    /\ toolOut.db # {}
    /\ toolOut.reply.text = "Shipment SHIP-REF-1002 not found"

\* the reference numbers of the entries the latest find_delayed_shipments gave
ReturnedRefs ==
    IF toolOut.reply.kind # "json" THEN {}
    ELSE IF variant = "mock"
    THEN { toolOut.reply.doc[i].reference_no : i \in DOMAIN toolOut.reply.doc }
    ELSE { toolOut.reply.doc[i][1] : i \in DOMAIN toolOut.reply.doc }

\* the reference numbers of the directory's entries whose status is AT_RISK
AtRiskRefs ==
    IF variant = "mock"
    THEN { Str(k) : k \in { r \in DOMAIN MOCK_SHIPMENTS : MOCK_SHIPMENTS[r].status = "AT_RISK" } }
    ELSE { row[1] : row \in { r \in toolOut.db : r[4] = Str("AT_RISK") } }

\* C3: find_delayed_shipments gives exactly the entries whose status is
\* AT_RISK: each entry given is AT_RISK, each AT_RISK entry is given, once
\* (mock: the one entry SHIP-REF-1003).
C3_DelayedAreExactlyAtRisk ==
    (IsDelayedCall /\ toolOut.ran)
       => /\ ReturnedRefs = AtRiskRefs
          /\ toolOut.reply.kind = "json"
               => /\ Len(toolOut.reply.doc) = Cardinality(AtRiskRefs)
                  /\ \A i \in DOMAIN toolOut.reply.doc :
                       IF variant = "mock"
                       THEN toolOut.reply.doc[i].status = Str("AT_RISK")
                       ELSE toolOut.reply.doc[i][4] = Str("AT_RISK")
          /\ variant = "mock" => ReturnedRefs = {Str("SHIP-REF-1003")}

\* C3 witness: the persisted tool gave two entries from a view of three
C3_Witness ==
    /\ variant = "persisted" /\ IsDelayedCall /\ toolOut.ran
    /\ Cardinality(toolOut.db) = 3
    /\ toolOut.reply.kind = "json"
    /\ Len(toolOut.reply.doc) = 2

\* does an entry of the document carry an ETA
HasEta(entry) ==
    IF variant = "mock" THEN "eta" \in DOMAIN entry ELSE entry[2] # None

\* the instant an entry's ETA text stands for
EtaOf(entry) == CHOOSE n \in 1..MaxEta : TsText(n) = entry[2].v

\* C4: in both variants the entries find_delayed_shipments gives are in
\* descending order of ETA, and each entry without an ETA stands after every
\* entry with one.
C4_DelayedOrderedByEtaDescNullsLast ==
    (IsDelayedCall /\ toolOut.reply.kind = "json")
       => \A i, j \in DOMAIN toolOut.reply.doc :
            (i < j /\ HasEta(toolOut.reply.doc[j]))
               => /\ HasEta(toolOut.reply.doc[i])
                  /\ EtaOf(toolOut.reply.doc[i]) >= EtaOf(toolOut.reply.doc[j])

\* C4 witness: three entries, of different ETAs first and without ETA last
C4_Witness ==
    /\ variant = "persisted" /\ IsDelayedCall /\ toolOut.reply.kind = "json"
    /\ Len(toolOut.reply.doc) = 3
    /\ toolOut.reply.doc[1][2] # None
    /\ toolOut.reply.doc[2][2] # None
    /\ toolOut.reply.doc[1][2] # toolOut.reply.doc[2][2]
    /\ toolOut.reply.doc[3][2] = None

\* C5: when no entry is AT_RISK, find_delayed_shipments gives the sentence
\* 'No delayed shipments found' as its result: not a fault, not an 'Error
\* finding delayed shipments' sentence, and never a serialized empty list.
C5_NoneAtRiskGivesSentinel ==
    /\ (IsDelayedCall /\ toolOut.ran /\ AtRiskRefs = {})
         => toolOut.reply = TextReply("No delayed shipments found")
    /\ (IsDelayedCall /\ toolOut.reply.kind = "json") => Len(toolOut.reply.doc) > 0

\* C5 witness: the view holds entries, none of them AT_RISK
C5_Witness ==
    /\ variant = "persisted" /\ IsDelayedCall /\ toolOut.ran
    /\ toolOut.db # {}
    /\ toolOut.reply.text = "No delayed shipments found"

\* a step that is one invocation of the entrypoint with an empty, None or
\* missing query
EmptyQueryInvocation == \E payload \in EmptyQueryPayloads : logistics_query(payload)

\* C6: when the query of the request is the empty string, None or missing,
\* logistics_query returns the usage hint, calls neither the model, the agent
\* nor the directory, and leaves every cached global as it was.
C6_EmptyQueryGivesHintAndTouchesNothing ==
    [][EmptyQueryInvocation
         => /\ response'.kind = "returned"
            /\ response'.text = UsageHint
            /\ response'.payload \in EmptyQueryPayloads
            /\ calls' = {}
            /\ pc' = "idle"
            /\ UNCHANGED caches
            /\ UNCHANGED << opened, toolOut >>]_vars

\* C6 witness: the hint was returned for an empty query by a process whose
\* model, agent and connection were built by earlier invocations
C6_Witness ==
    /\ response = Returned(Obj([query |-> Str("")]), UsageHint)
    /\ _agent # None /\ _openai_model # None
    /\ _db_connection # None
    /\ pc = "idle"

\* the sentence a tool of the persisted variant makes of a fault
FaultSentence(op, fault) ==
    IF op = "get_shipment_status"
    THEN "Error retrieving shipment status: " \o fault
    ELSE "Error finding delayed shipments: " \o fault

\* C7: a fault met by a tool of the persisted variant while it reaches the
\* store (parameters, secret, connection, query) is caught in the tool and
\* becomes its result, a sentence starting 'Error retrieving shipment status: '
\* or 'Error finding delayed shipments: '; no fault leaves the tool.
C7_StoreFaultsBecomeSentences ==
    (variant = "persisted" /\ (IsStatusCall \/ IsDelayedCall))
       => /\ toolOut.reply.kind \in {"json", "text"}
          /\ ~toolOut.ran <=> toolOut.fault # NoFault
          /\ toolOut.fault # NoFault
               => /\ toolOut.fault \in {SsmFault, SecretFault, NoCredsFault, ConnectFault, QueryFault}
                  /\ toolOut.reply = TextReply(FaultSentence(toolOut.op, toolOut.fault))

\* C7 witness: get_shipment_status met a connection failure
C7_Witness ==
    /\ variant = "persisted" /\ IsStatusCall
    /\ toolOut.fault = ConnectFault
    /\ PgConnection \in calls
    /\ toolOut.reply.text = "Error retrieving shipment status: pg8000: connection refused"

\* C8: every invocation of logistics_query, whatever the payload and
\* whatever model initialization and the agent do, ends by returning a
\* string; no fault leaves the entrypoint.
C8_EntrypointAlwaysReturnsString ==
    response.kind \in {"none", "pending", "returned"}

\* a step that is one call of a tool of the persisted variant: the steps
\* taken while the agent runs, the step that ends its run apart
DirectoryOperation == variant = "persisted" /\ pc = "running" /\ pc' = "running"

\* C9: after a directory operation failed in the configuration load (the
\* parameter read or the secret read), the next directory operation reads
\* the parameters and the secret again, and connects if both reads succeed.
C9_ConfigFaultRetriedByNextOperation ==
    [][(DirectoryOperation /\ toolOut.fault \in {SsmFault, SecretFault})
         => /\ {SsmGetParameters, DbGetSecretValue} \subseteq calls'
            /\ toolOut'.fault \notin {SsmFault, SecretFault} => PgConnection \in calls']_vars

\* C10: when opening the connection fails the fault leaves
\* get_db_connection, the cached handle stays empty with configuration and
\* credentials cached, and the next directory operation tries to connect
\* again without reading configuration or credentials anew; if it succeeds
\* the handle is cached.
C10_ConnectFaultRetriedByNextOperation ==
    [][DirectoryOperation
         => /\ toolOut'.fault = ConnectFault
                 => /\ PgConnection \in calls'
                    /\ _db_connection' = None
                    /\ _db_config' # None
                    /\ _db_credentials' # None
            /\ toolOut.fault = ConnectFault
                 => /\ PgConnection \in calls'
                    /\ SsmGetParameters \notin calls'
                    /\ DbGetSecretValue \notin calls'
                    /\ UNCHANGED << _db_config, _db_credentials >>
                    /\ toolOut'.fault # ConnectFault
                         => /\ _db_connection' # None
                            /\ opened' = opened + 1]_vars

\* C10 witness: the connection was opened by an operation that read no
\* configuration, after an earlier attempt had failed
C10_Witness ==
    /\ variant = "persisted"
    /\ _db_connection # None
    /\ toolOut.fault = NoFault
    /\ PgConnection \in calls
    /\ SsmGetParameters \notin calls

C12_LoadedConfigurationIsKept ==
    [][(_db_config # None /\ _db_credentials # None)
         => /\ UNCHANGED << _db_config, _db_credentials >>
            /\ SsmGetParameters \notin calls'
            /\ DbGetSecretValue \notin calls']_vars

\* C12 witness: an operation failed to connect using cached configuration
\* and credentials, which are still cached
C12_Witness ==
    /\ variant = "persisted"
    /\ _db_config = DbConfig /\ _db_credentials = DbCredentials
    /\ _db_connection = None
    /\ toolOut.fault = ConnectFault
    /\ calls = {PgConnection}

\* C14: in every state of the persisted variant the configuration is cached
\* if and only if the credentials are, and a connection is attempted only
\* with both.
C14_ConfigAndCredentialsCachedTogether ==
    /\ _db_config # None <=> _db_credentials # None
    /\ PgConnection \in calls => (_db_config # None /\ _db_credentials # None)

\* a step that is one invocation of the entrypoint with a query that is not
\* empty
QueryInvocation == logistics_query(Obj([query |-> Str(Question)]))

\* C15: the agent is set only if the model is; each is built at most once
\* and then kept unchanged; a failed model initialization leaves both unset
\* and the invocation returns 'Query failed: ...'; a query that finds no
\* model tries to build it.
C15_ModelAndAgentAreLazySingletons ==
    [][/\ _agent' # None => _openai_model' # None
       /\ _openai_model # None
            => /\ _openai_model' = _openai_model
               /\ OpenAiGetSecret \notin calls'
               /\ OpenAIModelCtor \notin calls'
       /\ _agent # None
            => /\ _agent' = _agent
               /\ AgentCtor \notin calls'
       /\ QueryInvocation
            => /\ _openai_model = None => OpenAiGetSecret \in calls'
               /\ (OpenAiGetSecret \in calls' /\ OpenAIModelCtor \notin calls')
                    => /\ _openai_model' = None
                       /\ _agent' = None
                       /\ pc' = "idle"
                       /\ response' = Returned(Obj([query |-> Str(Question)]),
                                               "Query failed: " \o OpenAiFault)
               /\ _agent' # None => _agent'.model = _openai_model']_vars

\* C15 witness: model initialization failed, the invocation returned the
\* failure sentence and both globals are unset
C15_Witness ==
    /\ response.text = "Query failed: secretsmanager: openai secret unavailable"
    /\ OpenAiGetSecret \in calls
    /\ _openai_model = None
    /\ _agent = None

\* no interleaved tool call is in progress
AllIdle == \A t \in Threads : th[t].pc = "idle"

\* a handle is cached and no thread is on the way to construct or store
\* a connection
Settled ==
    /\ _db_connection # None
    /\ \A t \in Threads :
         th[t].pc \notin {"load", "ret_cfg", "ssm", "secret", "connect", "assign"}

\* C13: when two tool calls interleave in first-time initialization, more
\* than one connection may be constructed, yet the cached handle is always
\* empty or a connection that was fully constructed; once the calls are over
\* and a connection was constructed, one is cached; from then on it is never
\* replaced, no connection is constructed and every call runs on the cached
\* handle; and as long as no two calls were in progress at once at most one
\* connection is constructed.
C13_DuplicateInitializationIsNotCorrupting ==
    /\ [](/\ _db_connection = None \/ \E n \in 1..opened : _db_connection = Handle(n)
          /\ (AllIdle /\ opened >= 1) => _db_connection # None
          /\ ~overlapped => opened <= 1)
    /\ [][Settled
            => /\ Settled'
               /\ _db_connection' = _db_connection
               /\ opened' = opened
               /\ \A t \in Threads :
                    (th[t].pc # "run" /\ th'[t].pc = "run")
                       => th'[t].conn = _db_connection]_vars

\* C13 witness: two connections were constructed by interleaved calls, both
\* calls ran their query and are over, and the second connection is cached
C13_Witness ==
    /\ opened = 2
    /\ overlapped
    /\ AllIdle
    /\ _db_connection = Handle(2)
    /\ \A t \in Threads : th[t].out.kind = "json"

====
